---- MODULE Spec2Model ----
(***************************************************************************)
(* Model of the zappix data hooks:                                         *)
(*   src/src/hooks/useUserImagePosts.ts  (validateImageEvent,              *)
(*       getDiscoveryPool, useUserImagePosts)                              *)
(*   src/unnamed/part_001                (validateReactionEvent,           *)
(*       useReactions, useReactToPost, useRemoveReaction)                  *)
(*                                                                         *)
(* JavaScript strings that the code inspects character by character        *)
(* (String.prototype.includes) are sequences of one-character strings;     *)
(* strings that are only compared are TLA+ strings.  A tag is the tuple    *)
(* <<name>> or <<name, value>>, and <<>> is the empty tag array.           *)
(***************************************************************************)
EXTENDS Integers, Sequences, FiniteSets, TLC

VARIABLES
    \* validateImageEvent applied to one event
    event, accepted, vpc,
    \* one page fetch of useUserImagePosts: the pool's answer and the page made of it
    rawEvents, page, ppc,
    \* the infinite query of useUserImagePosts against one author's events
    store, pages, pageParams,
    \* useCurrentUser, and one run of useReactions.queryFn after its query
    user, reactionEvents, reactionCounts, apc,
    \* the hooks at run time: the module-level pool, the page fetches in
    \* flight, the relay queries and their abort signals, the reactions hook
    \* that is running, and the calls it has made to its collaborators
    sharedDiscoveryPool, poolsConstructed, fetch, query, hook, calls

validateVars == <<event, accepted, vpc>>
pageVars == <<rawEvents, page, ppc>>
paginateVars == <<store, pages, pageParams>>
aggregateVars == <<reactionEvents, reactionCounts, apc>>
poolVars == <<sharedDiscoveryPool, poolsConstructed>>
hookVars == <<poolVars, fetch, query, hook, calls>>

vars == <<validateVars, pageVars, paginateVars, user, aggregateVars, hookVars>>

----------------------------------------------------------------------------
\* Bounds of the model

MaxTags == 2
\* Length of the freely chosen part of a pool answer
MaxVar == 2
\* Largest created_at of the author's events, and pages fetched in one run
MaxTime == 2
MaxPages == 4
\* Length of the answer to the reactions query
MaxReactions == 2
\* Length of the answer to the look-up query of useRemoveReaction
MaxExisting == 2
\* Milliseconds between two observations of the clock
TickMs == 1000
\* Pool constructions after which the model stops
MaxPools == 2

----------------------------------------------------------------------------
\* Generic helpers

\* All sequences over S of length 0..n
RECURSIVE SeqsUpTo(_, _)
SeqsUpTo(S, n) ==
    IF n = 0 THEN {<<>>}
    ELSE LET shorter == SeqsUpTo(S, n - 1)
         IN  shorter \cup {Append(s, x) : s \in {t \in shorter : Len(t) = n - 1}, x \in S}

\* String.prototype.includes: sub occurs in s as a contiguous run
Includes(s, sub) ==
    \E i \in 0..(Len(s) - Len(sub)) :
        \A j \in 1..Len(sub) : s[i + j] = sub[j]

\* Array.prototype.find(([name]) => name === n) as an index, 0 when nothing matches
RECURSIVE FindFrom(_, _, _)
FindFrom(tags, n, i) ==
    IF i > Len(tags) THEN 0
    ELSE IF Len(tags[i]) >= 1 /\ tags[i][1] = n THEN i
    ELSE FindFrom(tags, n, i + 1)

FindTag(tags, n) == FindFrom(tags, n, 1)

\* tag[1] of the tag at index i is truthy: present and not the empty string
TruthyValue(tags, i) == i # 0 /\ Len(tags[i]) >= 2 /\ tags[i][2] # <<>>

----------------------------------------------------------------------------
\* validateImageEvent

KindPicture == 20

StrUrl == <<"u", "r", "l">>

\* Variant: validateImageEvent without the test of the imeta value
validateImageEventNoImetaCheck(e) ==
    IF e.kind # KindPicture THEN FALSE
    ELSE LET title == FindTag(e.tags, "title")
             imeta == FindTag(e.tags, "imeta")
         IN  IF ~TruthyValue(e.tags, title) /\ imeta = 0 THEN FALSE
             ELSE TRUE

validateImageEvent(e) ==
    IF e.kind # KindPicture THEN FALSE
    ELSE LET title == FindTag(e.tags, "title")
             imeta == FindTag(e.tags, "imeta")
         IN  IF ~TruthyValue(e.tags, title) /\ imeta = 0 THEN FALSE
             ELSE IF imeta # 0 /\ TruthyValue(e.tags, imeta)
                     /\ ~Includes(e.tags[imeta][2], StrUrl) THEN FALSE
             ELSE TRUE

----------------------------------------------------------------------------
\* useUserImagePosts.queryFn: from the pool's answer to the page

\* filter.limit
Limit == 15

\* undefined / a number, as a sequence of length 0 / 1
Undefined == <<>>
Some(x) == <<x>>

\* events.filter(validateImageEvent)
ValidEvents(events) == SelectSeq(events, validateImageEvent)

\* validEvents.reduce(...): push an event unless acc already holds its id
RECURSIVE DedupeFrom(_, _, _)
DedupeFrom(events, i, acc) ==
    IF i > Len(events) THEN acc
    ELSE IF \E k \in 1..Len(acc) : acc[k].id = events[i].id
         THEN DedupeFrom(events, i + 1, acc)
         ELSE DedupeFrom(events, i + 1, Append(acc, events[i]))

UniqueEvents(events) == DedupeFrom(events, 1, <<>>)

\* Insert e behind every element the comparator does not put after it (stable)
InsertDesc(sorted, e) ==
    LET before == {k \in 0..Len(sorted) :
                      \A j \in 1..k : sorted[j].created_at >= e.created_at}
        pos == CHOOSE k \in before : \A m \in before : m <= k
    IN  SubSeq(sorted, 1, pos) \o <<e>> \o SubSeq(sorted, pos + 1, Len(sorted))

RECURSIVE SortFrom(_, _, _)
SortFrom(events, i, acc) ==
    IF i > Len(events) THEN acc
    ELSE SortFrom(events, i + 1, InsertDesc(acc, events[i]))

\* Variant: the sort left out
SortedEventsUnsorted(events) == events

\* uniqueEvents.sort((a, b) => b.created_at - a.created_at)
SortedEvents(events) == SortFrom(events, 1, <<>>)

\* sortedEvents[sortedEvents.length - 1]?.created_at
LastCreatedAt(sorted) ==
    IF Len(sorted) = 0 THEN Undefined ELSE Some(sorted[Len(sorted)].created_at)

\* The value queryFn returns for the pool's answer `events`
PageOf(events) ==
    LET sortedEvents == SortedEvents(UniqueEvents(ValidEvents(events)))
    IN  [events     |-> sortedEvents,
         nextCursor |-> IF Len(events) < Limit THEN Undefined
                        ELSE LastCreatedAt(sortedEvents)]

\* Pool answers: a freely chosen part of up to MaxVar events, before or after a
\* run of padding events that brings the answer to the page limit
TitleOnly == << <<"title", <<"t">> >> >>
BadImeta  == << <<"title", <<"t">> >>, <<"imeta", <<"d", "i", "m">> >> >>

----------------------------------------------------------------------------
----------------------------------------------------------------------------
\* useUserImagePosts: page after page against the events of one author

\* `if (pageParam) filter.until = pageParam`: undefined and 0 are falsy
FilterOf(pageParam) ==
    [limit |-> Limit,
     until |-> IF pageParam # Undefined /\ pageParam[1] # 0 THEN pageParam ELSE Undefined]

\* The pool's answer: the newest `limit` events with created_at <= until
\* (`all` is ordered newest first)
PoolQuery(all, filter) ==
    LET matching == IF filter.until = Undefined THEN all
                    ELSE SelectSeq(all, LAMBDA e : e.created_at <= filter.until[1])
    IN  SubSeq(matching, 1, IF Len(matching) < filter.limit THEN Len(matching)
                            ELSE filter.limit)

\* getNextPageParam of the last page; initialPageParam before the first
NextPageParam(ps) == IF Len(ps) = 0 THEN Undefined ELSE ps[Len(ps)].nextCursor

\* hasNextPage
HasNextPage(ps) == IF Len(ps) = 0 THEN TRUE ELSE ps[Len(ps)].nextCursor # Undefined

----------------------------------------------------------------------------
\* validateReactionEvent and the fold of useReactions.queryFn

KindReaction == 7

validateReactionEvent(e) ==
    IF e.kind # KindReaction THEN FALSE
    ELSE LET eTag == FindTag(e.tags, "e")
             pTag == FindTag(e.tags, "p")
         IN  IF eTag = 0 \/ ~TruthyValue(e.tags, eTag) THEN FALSE
             ELSE IF pTag = 0 \/ ~TruthyValue(e.tags, pTag) THEN FALSE
             ELSE TRUE

\* useCurrentUser: no user, or a user with a pubkey and possibly a signer
NoUser == [present |-> FALSE, pubkey |-> "", signer |-> FALSE]

Pubkeys == {"alice", "bob"}

Users == {NoUser} \cup [present : {TRUE}, pubkey : Pubkeys, signer : BOOLEAN]

\* `reaction.content || '+'`
ContentOrLike(content) == IF content = "" THEN "+" ELSE content

\* Properties every object literal inherits from Object.prototype: acc[name] is
\* a truthy value for them although acc has no such entry of its own
ObjectPrototypeKeys ==
    {"constructor", "toString", "valueOf", "hasOwnProperty", "__proto__"}

\* acc[content] is truthy
AccTruthy(acc, content) == content \in DOMAIN acc \/ content \in ObjectPrototypeKeys

\* One step of the reduce.  acc.entries are the own properties of the
\* accumulator; acc.threw records the TypeError of `.users.push` on an
\* inherited value, which has no users array.
ReduceStep(acc, reaction, u) ==
    LET content == ContentOrLike(reaction.content)
        fresh   == [count |-> 0, users |-> <<>>, hasReacted |-> FALSE]
        started == IF ~AccTruthy(acc.entries, content)
                   THEN [c \in DOMAIN acc.entries \cup {content} |->
                            IF c = content THEN fresh ELSE acc.entries[c]]
                   ELSE acc.entries
    IN  IF content \notin DOMAIN started
        THEN [acc EXCEPT !.threw = TRUE]
        ELSE [acc EXCEPT !.entries =
                [started EXCEPT ![content] =
                    [count      |-> @.count + 1,
                     users      |-> Append(@.users, reaction.pubkey),
                     hasReacted |-> IF u.present /\ reaction.pubkey = u.pubkey
                                    THEN TRUE ELSE @.hasReacted]]]

RECURSIVE ReduceFrom(_, _, _, _)
ReduceFrom(reactions, i, acc, u) ==
    IF i > Len(reactions) \/ acc.threw THEN acc
    ELSE ReduceFrom(reactions, i + 1, ReduceStep(acc, reactions[i], u), u)

\* The continuation of useReactions.queryFn after `await nostr.query(...)`
ReactionCountsOf(events, u) ==
    ReduceFrom(SelectSeq(events, validateReactionEvent), 1,
               [threw |-> FALSE, entries |-> <<>>], u)

----------------------------------------------------------------------------
\* getDiscoveryPool

\* sharedDiscoveryPool = null; a constructed pool is the number of its construction
Null == 0

\* Variant: getDiscoveryPool without the null check
GetDiscoveryPoolAlwaysNew(shared, constructed) ==
    [pool |-> constructed + 1, constructed |-> constructed + 1]

\* The pool getDiscoveryPool returns and the number of pools constructed so far
GetDiscoveryPool(shared, constructed) ==
    IF shared = Null
    THEN [pool |-> constructed + 1, constructed |-> constructed + 1]
    ELSE [pool |-> shared, constructed |-> constructed]

----------------------------------------------------------------------------
\* Abort signals of the relay queries

PageTimeoutMs == 10000
ReactionsTimeoutMs == 3000
RemoveTimeoutMs == 3000

\* Variant: the caller's signal passed on without the timeout
PageSignalCallerOnly == [sources |-> {"caller"}, timeoutMs |-> PageTimeoutMs]

\* AbortSignal.any([signal, AbortSignal.timeout(10000)])
PageSignal == [sources |-> {"caller", "timeout"}, timeoutMs |-> PageTimeoutMs]

\* AbortSignal.any([c.signal, AbortSignal.timeout(3000)])
ReactionsSignal == [sources |-> {"caller", "timeout"}, timeoutMs |-> ReactionsTimeoutMs]

\* AbortSignal.timeout(3000)
RemoveSignal == [sources |-> {"timeout"}, timeoutMs |-> RemoveTimeoutMs]

\* A query in flight: the sources of its signal, the time since it was issued
\* and whether its caller has cancelled meanwhile
NoQuery ==
    [pending |-> FALSE, sources |-> {}, timeoutMs |-> 0, elapsed |-> 0,
     cancelled |-> FALSE]

PendingQuery(sig) ==
    [pending |-> TRUE, sources |-> sig.sources, timeoutMs |-> sig.timeoutMs, elapsed |-> 0,
     cancelled |-> FALSE]

----------------------------------------------------------------------------
\* useReactToPost and useRemoveReaction

\* Variant: `user` tested instead of `user?.signer`
HasSignerUserOnly(u) == u.present

\* `user?.signer` is truthy
HasSigner(u) == u.present /\ u.signer

\* Variant: the content compared without the '+' default
RECURSIVE FindExactFrom(_, _, _)
FindExactFrom(existing, reaction, i) ==
    IF i > Len(existing) THEN 0
    ELSE IF existing[i].content = reaction THEN i
    ELSE FindExactFrom(existing, reaction, i + 1)

FindReactionExact(existing, reaction) == FindExactFrom(existing, reaction, 1)

RECURSIVE FindReactionFrom(_, _, _)
FindReactionFrom(existing, reaction, i) ==
    IF i > Len(existing) THEN 0
    ELSE IF ContentOrLike(existing[i].content) = reaction THEN i
    ELSE FindReactionFrom(existing, reaction, i + 1)

\* existingReactions.find(r => (r.content || '+') === reaction), as an index
FindReaction(existing, reaction) == FindReactionFrom(existing, reaction, 1)

\* Variant: the key made of the reaction's id instead of the target's
InvalidationKeyOfReaction(h) == h.reactionToRemove

\* queryKey ['reactions', variables.eventId] of onSuccess
InvalidationKey(h) == h.eventId

KindDeletion == 5

Call(fn, kind, ref) == [fn |-> fn, kind |-> kind, ref |-> ref]

IdleHook ==
    [op |-> "none", pc |-> "idle", eventId |-> "", reaction |-> "", error |-> "",
     reactionToRemove |-> "", existing |-> Undefined]

----------------------------------------------------------------------------
\* Values of the variables a specification does not use

NoEvent == [kind |-> 0, tags |-> <<>>]

ValidateIdle ==
    /\ event = NoEvent
    /\ accepted = FALSE
    /\ vpc = "off"

EmptyPage == [events |-> <<>>, nextCursor |-> Undefined]

PageIdle ==
    /\ rawEvents = <<>>
    /\ page = EmptyPage
    /\ ppc = "off"

PaginateIdle ==
    /\ store = <<>>
    /\ pages = <<>>
    /\ pageParams = <<>>

NoCounts == [threw |-> FALSE, entries |-> <<>>]

AggregateIdle ==
    /\ user = NoUser
    /\ reactionEvents = <<>>
    /\ reactionCounts = NoCounts
    /\ apc = "off"

Fetchers == {"f1", "f2"}
Procs == Fetchers \cup {"r"}

IdleFetch == [pc |-> "idle", pool |-> Null, page |-> EmptyPage]

HooksIdle ==
    /\ sharedDiscoveryPool = Null
    /\ poolsConstructed = 0
    /\ fetch = [f \in Fetchers |-> IdleFetch]
    /\ query = [p \in Procs |-> NoQuery]
    /\ hook = IdleHook
    /\ calls = <<>>

----------------------------------------------------------------------------
\* Specifications

\* Inputs of the validator\* Inputs of the validator
TagNames == {"title", "imeta", "alt"}

TagValues ==
    { <<>>, StrUrl, <<"u", "r">>, <<"x", "u", "r", "l">>, <<"d", "i", "m">> }

TagUniverse ==
    {<<>>} \cup {<<n>> : n \in TagNames} \cup {<<n, v>> : n \in TagNames, v \in TagValues}

ValidatorEvents ==
    [kind : {1, KindPicture}, tags : SeqsUpTo(TagUniverse, MaxTags)]

ValidateInit ==
    /\ event \in ValidatorEvents
    /\ accepted = FALSE
    /\ vpc = "input"
    /\ PageIdle
    /\ PaginateIdle
    /\ AggregateIdle
    /\ HooksIdle

Validate ==
    /\ vpc = "input"
    /\ accepted' = validateImageEvent(event)
    /\ vpc' = "validated"
    /\ UNCHANGED <<event, pageVars, paginateVars, user, aggregateVars, hookVars>>

ValidateNext == Validate

SpecValidate == ValidateInit /\ [][ValidateNext]_vars

PageIds == {1, 2}

PageTimes == {0, 2}

PageTags == {TitleOnly, <<>>}

PageEvents ==
    [id : PageIds, created_at : PageTimes, kind : {KindPicture}, tags : PageTags]

PadCounts == {0} \cup ((Limit - MaxVar)..Limit)

\* n padding events created at 1 with one tag list; their ids are all
\* different, or all the same (one event repeated by every relay)
Padding(n, tg, distinct) ==
    [i \in 1..n |-> [id         |-> IF distinct THEN 100 + i ELSE 100,
                     created_at |-> 1,
                     kind       |-> KindPicture,
                     tags       |-> tg]]

PoolAnswers ==
    LET free == SeqsUpTo(PageEvents, MaxVar)
        pads == {Padding(n, tg, d) :
                    n \in PadCounts, tg \in {TitleOnly, BadImeta}, d \in BOOLEAN}
    IN  {f \o p : f \in free, p \in pads} \cup {p \o f : f \in free, p \in pads}

PageInit ==
    /\ rawEvents \in PoolAnswers
    /\ page = EmptyPage
    /\ ppc = "answered"
    /\ ValidateIdle
    /\ PaginateIdle
    /\ AggregateIdle
    /\ HooksIdle

\* The continuation of queryFn after `await discoveryPool.query(...)`
MakePage ==
    /\ ppc = "answered"
    /\ page' = PageOf(rawEvents)
    /\ ppc' = "returned"
    /\ UNCHANGED <<validateVars, rawEvents, paginateVars, user, aggregateVars, hookVars>>

PageNext == MakePage

SpecPage == PageInit /\ [][PageNext]_vars

\* An author's events, newest first: counts[t] events created at t
StoredEvent(t, k) ==
    [id |-> 1000 * (t + 1) + k, created_at |-> t, kind |-> KindPicture, tags |-> TitleOnly]

RECURSIVE StoreFrom(_, _)
StoreFrom(counts, t) ==
    IF t < 0 THEN <<>>
    ELSE [k \in 1..counts[t] |-> StoredEvent(t, k)] \o StoreFrom(counts, t - 1)

EventCounts == {0, 1, Limit, Limit + 1}

PaginateInit ==
    /\ \E counts \in [0..MaxTime -> EventCounts] : store = StoreFrom(counts, MaxTime)
    /\ pages = <<>>
    /\ pageParams = <<>>
    /\ ValidateIdle
    /\ PageIdle
    /\ AggregateIdle
    /\ HooksIdle

\* One run of queryFn for the next page parameter (the first page when there
\* is no page yet)
FetchNextPage ==
    /\ Len(pages) < MaxPages
    /\ HasNextPage(pages)
    /\ LET pageParam == NextPageParam(pages)
       IN  /\ pages' = Append(pages, PageOf(PoolQuery(store, FilterOf(pageParam))))
           /\ pageParams' = Append(pageParams, pageParam)
    /\ UNCHANGED <<validateVars, pageVars, store, user, aggregateVars, hookVars>>

PaginateNext == FetchNextPage

SpecPaginate == PaginateInit /\ [][PaginateNext]_vars

ReactionContents == {"", "+", "fire", "constructor"}

TagsEP == << <<"e", <<"x">> >>, <<"p", <<"y">> >> >>

TagsE == << <<"e", <<"x">> >> >>

TagsEmptyP == << <<"e", <<"x">> >>, <<"p", <<>> >> >>

ReactionInputs ==
    [kind : {1, KindReaction}, pubkey : Pubkeys, content : ReactionContents,
     tags : {TagsEP, TagsE, TagsEmptyP}]

AggregateInit ==
    /\ user \in Users
    /\ reactionEvents \in SeqsUpTo(ReactionInputs, MaxReactions)
    /\ reactionCounts = NoCounts
    /\ apc = "answered"
    /\ ValidateIdle
    /\ PageIdle
    /\ PaginateIdle
    /\ HooksIdle

Aggregate ==
    /\ apc = "answered"
    /\ reactionCounts' = ReactionCountsOf(reactionEvents, user)
    /\ apc' = "returned"
    /\ UNCHANGED <<validateVars, pageVars, paginateVars, user, reactionEvents, hookVars>>

AggregateNext == Aggregate

SpecAggregate == AggregateInit /\ [][AggregateNext]_vars

\* The hooks at run time: page fetches that overlap at their awaits, and one
\* reactions hook at a time

HookUsers == {u \in Users : u.pubkey \in {"", "alice"}}

EventIds == {"ev1", "ev2"}
Reactions == {"", "+", "fire"}

\* Answers of the pool to a page fetch, of the relays to the reactions query
\* and to the look-up of useRemoveReaction
HookPageAnswers ==
    {<<>>, <<[id |-> 1, created_at |-> 1, kind |-> KindPicture, tags |-> TitleOnly]>>}

HookReactionAnswers ==
    SeqsUpTo({[kind |-> KindReaction, pubkey |-> "alice", content |-> "", tags |-> TagsEP],
              [kind |-> KindReaction, pubkey |-> "bob", content |-> "constructor",
               tags |-> TagsEP]}, 1)

ReactionIds == <<"r1", "r2", "r3", "r4">>

ExistingReactions ==
    {[i \in 1..Len(cs) |-> [id |-> ReactionIds[i], content |-> cs[i]]] :
        cs \in SeqsUpTo({"", "fire"}, MaxExisting)}

HooksInit ==
    /\ user \in HookUsers
    /\ HooksIdle
    /\ ValidateIdle
    /\ PageIdle
    /\ PaginateIdle
    /\ reactionEvents = <<>>
    /\ reactionCounts = NoCounts
    /\ apc = "off"

hookRest == <<validateVars, pageVars, paginateVars, user, reactionEvents, apc>>

\* queryFn of useUserImagePosts up to its await: the early return without a
\* pubkey, or the signal, getDiscoveryPool and the query
StartFetch(f, hasPubkey) ==
    /\ fetch[f].pc # "awaitQuery"
    /\ IF ~hasPubkey
       THEN /\ fetch' = [fetch EXCEPT ![f] = [pc |-> "returned", pool |-> Null,
                                               page |-> EmptyPage]]
            /\ UNCHANGED <<poolVars, query>>
       ELSE LET got == GetDiscoveryPool(sharedDiscoveryPool, poolsConstructed)
            IN  /\ got.constructed <= MaxPools
                /\ sharedDiscoveryPool' = got.pool
                /\ poolsConstructed' = got.constructed
                /\ fetch' = [fetch EXCEPT ![f] = [pc |-> "awaitQuery", pool |-> got.pool,
                                                   page |-> EmptyPage]]
                /\ query' = [query EXCEPT ![f] = PendingQuery(PageSignal)]
    /\ UNCHANGED <<hookRest, reactionCounts, hook, calls>>

\* The pool answers: the rest of queryFn
FetchResolve(f, events) ==
    /\ query[f].pending
    /\ fetch' = [fetch EXCEPT ![f].pc = "returned", ![f].page = PageOf(events)]
    /\ query' = [query EXCEPT ![f] = NoQuery]
    /\ UNCHANGED <<hookRest, reactionCounts, poolVars, hook, calls>>

\* The pool rejects: queryFn logs and rethrows, the cached page stays
FetchReject(f) ==
    /\ query[f].pending
    /\ fetch' = [fetch EXCEPT ![f].pc = "failed"]
    /\ query' = [query EXCEPT ![f] = NoQuery]
    /\ UNCHANGED <<hookRest, reactionCounts, poolVars, hook, calls>>

\* What the abort of a query does to the one awaiting it
AbortedFetch(f) == [fetch[f] EXCEPT !.pc = "failed"]
AbortedHook == [hook EXCEPT !.pc = "rejected", !.error = "aborted"]

\* The caller of p cancels while p's query is in flight.  The query is aborted
\* if its signal includes the caller's.
CallerCancel(p) ==
    /\ query[p].pending
    /\ ~query[p].cancelled
    /\ LET aborts == "caller" \in query[p].sources
       IN  /\ query' = [query EXCEPT ![p] = IF aborts THEN NoQuery
                                            ELSE [@ EXCEPT !.cancelled = TRUE]]
           /\ fetch' = IF aborts /\ p \in Fetchers
                       THEN [fetch EXCEPT ![p] = AbortedFetch(p)] ELSE fetch
           /\ hook' = IF aborts /\ p = "r" THEN AbortedHook ELSE hook
    /\ UNCHANGED <<hookRest, reactionCounts, poolVars, calls>>

TimedOut(p) ==
    /\ query[p].pending
    /\ "timeout" \in query[p].sources
    /\ query[p].elapsed + TickMs >= query[p].timeoutMs

\* Time passes for every query in flight; AbortSignal.timeout aborts those
\* whose time is up
Tick ==
    /\ \E p \in Procs : query[p].pending /\ query[p].elapsed < PageTimeoutMs
    /\ query' = [p \in Procs |->
                    IF ~query[p].pending THEN query[p]
                    ELSE IF TimedOut(p) THEN NoQuery
                    ELSE [query[p] EXCEPT !.elapsed =
                             IF @ + TickMs > PageTimeoutMs THEN PageTimeoutMs
                             ELSE @ + TickMs]]
    /\ fetch' = [f \in Fetchers |-> IF TimedOut(f) THEN AbortedFetch(f) ELSE fetch[f]]
    /\ hook' = IF TimedOut("r") THEN AbortedHook ELSE hook
    /\ UNCHANGED <<hookRest, reactionCounts, poolVars, calls>>

HookAtRest == hook.pc \in {"idle", "settled", "rejected"}

NewHook(op, eventId, reaction) ==
    [IdleHook EXCEPT !.op = op, !.eventId = eventId, !.reaction = reaction]

\* queryFn of useReactions up to its await
StartReactions(eventId) ==
    /\ HookAtRest
    /\ hook' = [NewHook("useReactions", eventId, "") EXCEPT !.pc = "awaitQuery"]
    /\ query' = [query EXCEPT !["r"] = PendingQuery(ReactionsSignal)]
    /\ calls' = <<Call("query", KindReaction, eventId)>>
    /\ reactionCounts' = NoCounts
    /\ UNCHANGED <<hookRest, poolVars, fetch>>

\* The relays answer the reactions query: filter and fold
ReactionsResolve(events) ==
    /\ hook.op = "useReactions"
    /\ query["r"].pending
    /\ LET counts == ReactionCountsOf(events, user)
       IN  IF counts.threw
           THEN /\ hook' = [hook EXCEPT !.pc = "rejected", !.error = "TypeError"]
                /\ UNCHANGED reactionCounts
           ELSE /\ hook' = [hook EXCEPT !.pc = "settled"]
                /\ reactionCounts' = counts
    /\ query' = [query EXCEPT !["r"] = NoQuery]
    /\ UNCHANGED <<hookRest, poolVars, fetch, calls>>

\* nostr.query rejects (transport failure) in useReactions or useRemoveReaction
HookQueryReject ==
    /\ query["r"].pending
    /\ hook' = [hook EXCEPT !.pc = "rejected", !.error = "transport"]
    /\ query' = [query EXCEPT !["r"] = NoQuery]
    /\ UNCHANGED <<hookRest, reactionCounts, poolVars, fetch, calls>>

\* mutationFn of useReactToPost up to its first await
StartReact(eventId, reaction) ==
    /\ HookAtRest
    /\ IF ~HasSigner(user)
       THEN /\ hook' = [NewHook("useReactToPost", eventId, reaction) EXCEPT
                            !.pc = "rejected", !.error = "User not logged in"]
            /\ calls' = <<>>
       ELSE /\ hook' = [NewHook("useReactToPost", eventId, reaction) EXCEPT
                            !.pc = "awaitSign"]
            /\ calls' = <<Call("signEvent", KindReaction, eventId)>>
    /\ reactionCounts' = NoCounts
    /\ UNCHANGED <<hookRest, poolVars, fetch, query>>

\* mutationFn of useRemoveReaction up to its first await
StartRemove(eventId, reaction) ==
    /\ HookAtRest
    /\ IF ~HasSigner(user)
       THEN /\ hook' = [NewHook("useRemoveReaction", eventId, reaction) EXCEPT
                            !.pc = "rejected", !.error = "User not logged in"]
            /\ calls' = <<>>
            /\ UNCHANGED query
       ELSE /\ hook' = [NewHook("useRemoveReaction", eventId, reaction) EXCEPT
                            !.pc = "awaitQuery"]
            /\ calls' = <<Call("query", KindReaction, eventId)>>
            /\ query' = [query EXCEPT !["r"] = PendingQuery(RemoveSignal)]
    /\ reactionCounts' = NoCounts
    /\ UNCHANGED <<hookRest, poolVars, fetch>>

\* The relays answer the look-up: find the reaction, fail or sign its deletion
RemoveLookupResolve(existing) ==
    /\ hook.op = "useRemoveReaction"
    /\ query["r"].pending
    /\ LET found == FindReaction(existing, hook.reaction)
       IN  IF found = 0
           THEN /\ hook' = [hook EXCEPT !.pc = "rejected", !.error = "Reaction not found",
                                        !.existing = Some(existing)]
                /\ UNCHANGED calls
           ELSE /\ hook' = [hook EXCEPT !.pc = "awaitSign",
                                        !.reactionToRemove = existing[found].id,
                                        !.existing = Some(existing)]
                /\ calls' = Append(calls, Call("signEvent", KindDeletion, existing[found].id))
    /\ query' = [query EXCEPT !["r"] = NoQuery]
    /\ UNCHANGED <<hookRest, reactionCounts, poolVars, fetch>>

\* The signer returns the signed event, which is handed to nostr.event
SignResolve ==
    /\ hook.pc = "awaitSign"
    /\ hook' = [hook EXCEPT !.pc = "awaitPublish"]
    /\ calls' = Append(calls, Call("event", calls[Len(calls)].kind, calls[Len(calls)].ref))
    /\ UNCHANGED <<hookRest, reactionCounts, poolVars, fetch, query>>

SignReject ==
    /\ hook.pc = "awaitSign"
    /\ hook' = [hook EXCEPT !.pc = "rejected", !.error = "sign"]
    /\ UNCHANGED <<hookRest, reactionCounts, poolVars, fetch, query, calls>>

\* nostr.event resolves: mutationFn returns the event
PublishResolve ==
    /\ hook.pc = "awaitPublish"
    /\ hook' = [hook EXCEPT !.pc = "resolved"]
    /\ UNCHANGED <<hookRest, reactionCounts, poolVars, fetch, query, calls>>

PublishReject ==
    /\ hook.pc = "awaitPublish"
    /\ hook' = [hook EXCEPT !.pc = "rejected", !.error = "publish"]
    /\ UNCHANGED <<hookRest, reactionCounts, poolVars, fetch, query, calls>>

\* onSuccess of either mutation
OnSuccess ==
    /\ hook.pc = "resolved"
    /\ hook' = [hook EXCEPT !.pc = "settled"]
    /\ calls' = Append(calls, Call("invalidateQueries", 0, InvalidationKey(hook)))
    /\ UNCHANGED <<hookRest, reactionCounts, poolVars, fetch, query>>

HooksNext ==
    \/ \E f \in Fetchers, hasPubkey \in BOOLEAN : StartFetch(f, hasPubkey)
    \/ \E f \in Fetchers, events \in HookPageAnswers : FetchResolve(f, events)
    \/ \E f \in Fetchers : FetchReject(f)
    \/ \E p \in Procs : CallerCancel(p)
    \/ Tick
    \/ \E eventId \in EventIds : StartReactions(eventId)
    \/ \E events \in HookReactionAnswers : ReactionsResolve(events)
    \/ HookQueryReject
    \/ \E eventId \in EventIds, reaction \in Reactions : StartReact(eventId, reaction)
    \/ \E eventId \in EventIds, reaction \in Reactions : StartRemove(eventId, reaction)
    \/ \E existing \in ExistingReactions : RemoveLookupResolve(existing)
    \/ SignResolve
    \/ SignReject
    \/ PublishResolve
    \/ PublishReject
    \/ OnSuccess

SpecHooks == HooksInit /\ [][HooksNext]_vars

----------------------------------------------------------------------------
\* Claims

HasTag(tags, n) == \E i \in 1..Len(tags) : Len(tags[i]) >= 1 /\ tags[i][1] = n

HasUrlImeta(tags) ==
    \E i \in 1..Len(tags) :
        /\ Len(tags[i]) >= 2
        /\ tags[i][1] = "imeta"
        /\ Includes(tags[i][2], StrUrl)

\* The first tag named n, as the set of its indices (empty or a singleton)
FirstTag(tags, n) ==
    {i \in 1..Len(tags) :
        /\ Len(tags[i]) >= 1 /\ tags[i][1] = n
        /\ \A j \in 1..(i - 1) : ~(Len(tags[j]) >= 1 /\ tags[j][1] = n)}

\* C1 as stated: validateImageEvent(e) is true iff e.kind is 20 and e has a
\* title tag or an imeta tag whose value contains "url".
C1_Original ==
    vpc = "validated" =>
        (accepted <=> (event.kind = 20
                       /\ (HasTag(event.tags, "title") \/ HasUrlImeta(event.tags))))

\* C1 amended: validateImageEvent(e) is true iff e.kind is 20, and the first
\* title tag has a non-empty value or an imeta tag is present, and the first
\* imeta tag (if any) has no value, an empty value, or a value containing "url".
C1_Validator ==
    vpc = "validated" =>
        (accepted <=>
            /\ event.kind = 20
            /\ \/ \E i \in FirstTag(event.tags, "title") :
                      Len(event.tags[i]) >= 2 /\ event.tags[i][2] # <<>>
               \/ HasTag(event.tags, "imeta")
            /\ \A i \in FirstTag(event.tags, "imeta") :
                   \/ Len(event.tags[i]) < 2
                   \/ event.tags[i][2] = <<>>
                   \/ Includes(event.tags[i][2], StrUrl))

\* A picture event with a valued title is rejected because its imeta value
\* lacks "url": the case the original statement gets wrong.
C1_Witness ==
    /\ vpc = "validated"
    /\ ~accepted
    /\ event.kind = 20
    /\ \E i \in FirstTag(event.tags, "title") :
           Len(event.tags[i]) >= 2 /\ event.tags[i][2] # <<>>
    /\ HasTag(event.tags, "imeta")

\* C2 as stated: nextCursor is absent exactly when the pool returned fewer raw
\* events than the limit; otherwise it is present and equals the created_at of
\* the last event of the page.
C2_Original ==
    ppc = "returned" =>
        /\ (page.nextCursor = Undefined) <=> (Len(rawEvents) < Limit)
        /\ page.nextCursor # Undefined =>
               /\ Len(page.events) > 0
               /\ page.nextCursor = Some(page.events[Len(page.events)].created_at)

\* C3: the events of a page all pass validateImageEvent, no two share an id,
\* each is the first valid raw event with its id, and they are ordered by
\* non-increasing created_at.
C3_PageShape ==
    ppc = "returned" =>
        /\ \A i \in 1..Len(page.events) : validateImageEvent(page.events[i])
        /\ \A i, j \in 1..Len(page.events) :
               page.events[i].id = page.events[j].id => i = j
        /\ \A i \in 1..Len(page.events) :
               \E j \in 1..Len(rawEvents) :
                   /\ rawEvents[j] = page.events[i]
                   /\ \A k \in 1..(j - 1) :
                          ~(validateImageEvent(rawEvents[k])
                            /\ rawEvents[k].id = page.events[i].id)
        /\ \A i \in 1..(Len(page.events) - 1) :
               page.events[i].created_at >= page.events[i + 1].created_at

\* A page made from an answer that repeats an id and is out of order
C3_Witness ==
    /\ ppc = "returned"
    /\ Len(page.events) >= 2
    /\ \E i, j \in 1..Len(rawEvents) :
           /\ i < j
           /\ validateImageEvent(rawEvents[i])
           /\ validateImageEvent(rawEvents[j])
           /\ rawEvents[i].id = rawEvents[j].id
           /\ rawEvents[i] # rawEvents[j]
    /\ \E i, j \in 1..Len(rawEvents) :
           /\ i < j
           /\ validateImageEvent(rawEvents[i])
           /\ validateImageEvent(rawEvents[j])
           /\ rawEvents[i].created_at < rawEvents[j].created_at

PageIdsOf(p) == {p.events[i].id : i \in 1..Len(p.events)}

\* C10 as stated (its safety part): the cursor a page returns is strictly
\* smaller than the cursor that requested the page, and no event id appears in
\* two different pages.
C10_Original ==
    /\ \A i \in 1..Len(pages) :
           (pageParams[i] # Undefined /\ pages[i].nextCursor # Undefined)
               => pages[i].nextCursor[1] < pageParams[i][1]
    /\ \A i, j \in 1..Len(pages) :
           i # j => PageIdsOf(pages[i]) \cap PageIdsOf(pages[j]) = {}

ValidWith(events, content) ==
    {i \in 1..Len(events) :
        /\ events[i].kind = 7
        /\ \E t \in 1..Len(events[i].tags) :
               events[i].tags[t][1] = "e" /\ Len(events[i].tags[t]) >= 2
               /\ events[i].tags[t][2] # <<>>
        /\ \E t \in 1..Len(events[i].tags) :
               events[i].tags[t][1] = "p" /\ Len(events[i].tags[t]) >= 2
               /\ events[i].tags[t][2] # <<>>
        /\ ContentOrLike(events[i].content) = content}

\* C6 as stated: the aggregate has one entry per distinct content (empty read
\* as "+") among the valid reaction events; the entry's count is the number of
\* valid events with that content and its hasReacted tells whether the viewer
\* is the author of one of them.
C6_Original ==
    apc = "returned" =>
        /\ ~reactionCounts.threw
        /\ DOMAIN reactionCounts.entries =
               {c \in {ContentOrLike(x) : x \in ReactionContents} :
                   ValidWith(reactionEvents, c) # {}}
        /\ \A c \in DOMAIN reactionCounts.entries :
               /\ reactionCounts.entries[c].count = Cardinality(ValidWith(reactionEvents, c))
               /\ reactionCounts.entries[c].hasReacted <=>
                      (user.present /\ \E i \in ValidWith(reactionEvents, c) :
                                           reactionEvents[i].pubkey = user.pubkey)

Mutations == {"useReactToPost", "useRemoveReaction"}

CallsOf(fns) == {i \in 1..Len(calls) : calls[i].fn \in fns}

\* C4: useReactToPost run without user.signer fails with the authentication
\* error, and that run makes no signEvent, no publish and no invalidation call.
C4_NoSigner ==
    (hook.op = "useReactToPost" /\ ~(user.present /\ user.signer)) =>
        /\ hook.pc = "rejected"
        /\ hook.error = "User not logged in"
        /\ CallsOf({"signEvent", "event", "invalidateQueries"}) = {}

\* A present user without a signer has tried to react
C4_Witness ==
    /\ hook.op = "useReactToPost"
    /\ user.present
    /\ ~user.signer
    /\ hook.pc = "rejected"

\* The answers of the look-up that match the requested reaction
Matches(existing, reaction) ==
    {i \in 1..Len(existing) :
        (IF existing[i].content = "" THEN "+" ELSE existing[i].content) = reaction}

\* C5: once the look-up of useRemoveReaction is answered, either nothing
\* matches the requested reaction and the run has failed with the not-found
\* error without signing or publishing, or every signed and published event
\* is a kind 5 deletion referencing the id of the first match.
C5_RemoveLookup ==
    (hook.op = "useRemoveReaction" /\ hook.existing # Undefined) =>
        LET existing == hook.existing[1]
            matches  == Matches(existing, hook.reaction)
        IN  IF matches = {}
            THEN /\ hook.pc = "rejected"
                 /\ hook.error = "Reaction not found"
                 /\ CallsOf({"signEvent", "event"}) = {}
            ELSE /\ hook.error # "Reaction not found"
                 /\ CallsOf({"signEvent"}) # {}
                 /\ \A i \in CallsOf({"signEvent", "event"}) :
                        /\ calls[i].kind = 5
                        /\ \E m \in matches :
                               /\ \A n \in matches : m <= n
                               /\ calls[i].ref = existing[m].id

\* A deletion was published for the second answer of the look-up, the first
\* one having another content
C5_Witness ==
    /\ hook.op = "useRemoveReaction"
    /\ hook.existing # Undefined
    /\ Len(hook.existing[1]) = 2
    /\ Matches(hook.existing[1], hook.reaction) = {2}
    /\ CallsOf({"event"}) # {}

\* The answered look-up matched nothing
C5_WitnessNotFound ==
    /\ hook.op = "useRemoveReaction"
    /\ hook.existing # Undefined
    /\ hook.existing[1] # <<>>
    /\ hook.error = "Reaction not found"

\* C7 as stated: every relay query in flight carries a signal made of the
\* caller's cancellation and a timeout, so none is in flight after its caller
\* has cancelled or its timeout has passed.
C7_Original ==
    \A p \in Procs :
        query[p].pending =>
            /\ query[p].sources = {"caller", "timeout"}
            /\ ~query[p].cancelled
            /\ query[p].elapsed < query[p].timeoutMs

\* C7 amended: the page fetch (10000 ms) and the reactions query (3000 ms)
\* carry the caller's cancellation combined with a timeout and are in flight
\* only while neither has fired; the look-up of useRemoveReaction carries the
\* 3000 ms timeout alone: it is never in flight past its timeout, and the
\* caller's cancellation does not abort it.
C7_Signals ==
    /\ \A f \in Fetchers :
           query[f].pending =>
               /\ query[f].sources = {"caller", "timeout"}
               /\ query[f].timeoutMs = 10000
               /\ ~query[f].cancelled
               /\ query[f].elapsed < 10000
    /\ (query["r"].pending /\ hook.op = "useReactions") =>
           /\ query["r"].sources = {"caller", "timeout"}
           /\ query["r"].timeoutMs = 3000
           /\ ~query["r"].cancelled
           /\ query["r"].elapsed < 3000
    /\ (query["r"].pending /\ hook.op = "useRemoveReaction") =>
           /\ query["r"].sources = {"timeout"}
           /\ query["r"].timeoutMs = 3000
           /\ query["r"].elapsed < 3000
    /\ query["r"].pending => hook.op \in {"useReactions", "useRemoveReaction"}

\* The look-up is still in flight after the caller cancelled, while a page
\* fetch is in flight one tick before its timeout
C7_Witness ==
    /\ hook.op = "useRemoveReaction"
    /\ query["r"].pending
    /\ query["r"].cancelled
    /\ \E f \in Fetchers : query[f].pending /\ query[f].elapsed + TickMs >= 10000

\* C8 (state part): a mutation that succeeded ends with the invalidation of
\* ['reactions', eventId] for its own eventId, made right after the publish
\* call; no invalidation is made in any other state of a run, in particular not
\* in a run that failed; and the only step of a mutation whose publish has
\* succeeded is that invalidation.
C8_InvalidationState ==
    /\ (hook.op \in Mutations /\ hook.pc = "settled") =>
           /\ Len(calls) >= 2
           /\ calls[Len(calls)] = [fn |-> "invalidateQueries", kind |-> 0, ref |-> hook.eventId]
           /\ calls[Len(calls) - 1].fn = "event"
    /\ \A i \in CallsOf({"invalidateQueries"}) :
           /\ hook.op \in Mutations
           /\ hook.pc = "settled"
           /\ i = Len(calls)
    /\ hook.pc = "rejected" => CallsOf({"invalidateQueries"}) = {}

\* C8: the state part above in every state, and after a successful publish the
\* run's next step is the invalidation of ['reactions', eventId].
C8_Invalidation ==
    /\ []C8_InvalidationState
    /\ [][(hook.pc = "resolved" /\ hook' # hook) =>
            /\ hook'.pc = "settled"
            /\ calls' = Append(calls, [fn |-> "invalidateQueries", kind |-> 0,
                                       ref |-> hook.eventId])]_vars

\* A remove-reaction mutation has succeeded and invalidated
C8_Witness ==
    /\ hook.op = "useRemoveReaction"
    /\ hook.pc = "settled"
    /\ CallsOf({"invalidateQueries"}) # {}

\* C9: the pool is constructed at most once; it is null exactly as long as no
\* fetch has constructed it, and every fetch that got a pool got the first one.
C9_PoolOnce ==
    /\ poolsConstructed <= 1
    /\ sharedDiscoveryPool = poolsConstructed
    /\ \A f \in Fetchers :
           fetch[f].pc = "awaitQuery" => (fetch[f].pool = 1 /\ sharedDiscoveryPool = 1)
    /\ \A f \in Fetchers : fetch[f].pool \in {0, 1}

\* Two page fetches are in flight at once, started at different times
C9_Witness ==
    /\ fetch["f1"].pc = "awaitQuery"
    /\ fetch["f2"].pc = "awaitQuery"
    /\ query["f1"].elapsed # query["f2"].elapsed
    /\ poolsConstructed = 1

====
